---- MODULE Spec2Model ----
(***************************************************************************)
(* Model of weed/s3api/s3api_circuit_breaker.go: the CircuitBreaker        *)
(* admission gate (Limit / limit / loadCounterAndCompare) and its          *)
(* configuration loader (NewCircuitBreaker / LoadS3ApiConfigurationFrom-   *)
(* Bytes / loadCircuitBreakerConfig).                                      *)
(*                                                                         *)
(* Every request is handled by its own goroutine; a step of the model is   *)
(* one access to shared memory (cb.Enabled, cb.limitations, cb.counters,   *)
(* the mutex, one atomic counter) together with the local computation      *)
(* that follows it.  The program counter of a request is the source line   *)
(* of the shared access it performs next.                                  *)
(*                                                                         *)
(* Strings are modelled by their list of separator-free components, so     *)
(* that joining strings with the separator is concatenation of lists:      *)
(* "b1" is <<"b1">>, "" is <<"">>, "Write:count" is <<"Write","count">>.   *)
(***************************************************************************)
EXTENDS Integers, Sequences, FiniteSets, TLC

\* ---------------------------------------------------------------- bounds
\* goroutines serving requests in the general specifications
NumWorkers == 2
\* goroutines serving requests in the fixed-table, non-negative scenario
NumConcurrent == 3
\* largest declared content length a request carries
MaxLen == 2
\* calls of LoadS3ApiConfigurationFromBytes after construction
MaxReloads == 2

AllWorkers == 1..(IF NumWorkers > NumConcurrent THEN NumWorkers ELSE NumConcurrent)
Workers == 1..NumWorkers
ConcurrentWorkers == 1..NumConcurrent

\* ------------------------------------------------------------- constants
ErrNone == "ErrNone"
ErrTooManyRequest == "ErrTooManyRequest"
ErrRequestBytesExceed == "ErrRequestBytesExceed"

LimitTypeCount == "count"
LimitTypeBytes == "bytes"

\* the action the wrapped handler is registered for
Action == "Write"

\* bucket names the router can extract from a request
Buckets == {"b1", "b2"}

\* r.ContentLength: -1 is what net/http reports for an unknown length
Lens == (-1)..MaxLen
NonNegLens == 0..MaxLen

\* the inputs of the specification with reloads
ReloadBuckets == {"b1"}
ReloadLens == {-1, 1}

\* ---------------------------------------------------------------- helpers
EmptyMap == [k \in {} |-> 0]

Put(m, k, v) == [x \in (DOMAIN m) \cup {k} |-> IF x = k THEN v ELSE m[x]]

RECURSIVE Flatten(_)
Flatten(ss) == IF ss = <<>> THEN <<>> ELSE Head(ss) \o Flatten(Tail(ss))

\* s3_config.Concat(elements ...string): the elements joined by the separator
Concat(elements) == Flatten(elements)

\* a separator-free string as a component list
Str(s) == <<s>>

\* the key of an action map of the configuration: "<action>:<limit type>"
ActionKey(action, limitType) == <<action, limitType>>

\* --------------------------------------------------------- configuration
\* *s3_pb.S3CircuitBreakerOptions: {enabled, actions}; Present is false for nil
Options(enabled, actions) == [Present |-> TRUE, Enabled |-> enabled, Actions |-> actions]

NoOptions == [Present |-> FALSE, Enabled |-> FALSE, Actions |-> EmptyMap]

\* s3_pb.S3CircuitBreakerConfig: {global, buckets}
Config(global, buckets) == [Global |-> global, Buckets |-> buckets]

CountOnly(n) == Put(EmptyMap, ActionKey(Action, LimitTypeCount), n)
BytesOnly(m) == Put(EmptyMap, ActionKey(Action, LimitTypeBytes), m)
CountAndBytes(n, m) == Put(CountOnly(n), ActionKey(Action, LimitTypeBytes), m)

OneBucket(b, opts) == Put(EmptyMap, b, opts)

\* no global section, no bucket
CfgEmpty == Config(NoOptions, EmptyMap)
\* global section switched off, bucket b1 switched on with a count limit
CfgGlobalOff == Config(Options(FALSE, CountOnly(1)), OneBucket("b1", Options(TRUE, CountOnly(1))))
\* global and bucket b1 switched on, count limit n
CfgCount(n) == Config(Options(TRUE, CountOnly(n)), OneBucket("b1", Options(TRUE, CountOnly(n))))
\* global and bucket b1 switched on, bytes limit m
CfgBytes(m) == Config(Options(TRUE, BytesOnly(m)), OneBucket("b1", Options(TRUE, BytesOnly(m))))
\* global switched on, bucket b1 with both limits
CfgBoth(n, m) == Config(Options(TRUE, CountOnly(n)), OneBucket("b1", Options(TRUE, CountAndBytes(n, m))))
\* global switched on, bucket b1 present but switched off
CfgBucketOff == Config(Options(TRUE, CountOnly(1)), OneBucket("b1", Options(FALSE, CountOnly(1))))

Configs == {CfgGlobalOff, CfgCount(1), CfgBoth(2, 1)}
FixedConfigs == {CfgEmpty, CfgGlobalOff, CfgBucketOff, CfgCount(1), CfgBytes(1), CfgBoth(1, 1)}
ConcurrentConfigs == {CfgCount(1), CfgCount(2), CfgBytes(1), CfgBytes(2)}

\* the configurations of the loader specification: the global section absent
\* or present, on or off, with no, one or two actions; each bucket absent or
\* present, on or off, with one or two actions
GlobalChoices ==
  {NoOptions} \cup {Options(e, acts) : e \in BOOLEAN, acts \in {EmptyMap, CountOnly(1), CountAndBytes(2, 1)}}
BucketChoices ==
  {Options(e, acts) : e \in BOOLEAN, acts \in {BytesOnly(2), CountAndBytes(1, 2)}}
BucketMaps ==
  UNION {[S -> BucketChoices] : S \in SUBSET Buckets}
LoadConfigs == {Config(g, bs) : g \in GlobalChoices, bs \in BucketMaps}

\* the bytes handed to LoadS3ApiConfigurationFromBytes, by what decoding
\* them gives: an error, or a configuration
Content(cfg) == [ok |-> TRUE, cfg |-> cfg]
BadContent == [ok |-> FALSE, cfg |-> CfgEmpty]
Contents(cfgs) == {Content(c) : c \in cfgs} \cup {BadContent}

\* filer.ParseS3ConfigurationFromBytes(content, cbCfg)
ParseS3ConfigurationFromBytes(content) ==
  IF content.ok THEN [err |-> "nil", cfg |-> content.cfg]
  ELSE [err |-> "unmarshal error", cfg |-> CfgEmpty]

\* loadCircuitBreakerConfig, lines 61-69: the value written to cb.Enabled
NewEnabled(cfg) ==
  LET g == cfg.Global
  IN IF g.Present /\ g.Enabled /\ Cardinality(DOMAIN g.Actions) > 0 THEN g.Enabled ELSE FALSE

\* the bucket loop of lines 73-79 inside the if of line 64: a bucket's
\* entries are copied only when the global section is on
NewLimitationsGated(cfg) ==
  LET g == cfg.Global
      on == g.Present /\ g.Enabled /\ Cardinality(DOMAIN g.Actions) > 0
      globalPart == IF on THEN g.Actions ELSE EmptyMap
      enabledBuckets == {b \in DOMAIN cfg.Buckets : on /\ cfg.Buckets[b].Enabled}
      pairs == {<<b, a>> \in enabledBuckets \X UNION {DOMAIN cfg.Buckets[b].Actions : b \in enabledBuckets} :
                  a \in DOMAIN cfg.Buckets[b].Actions}
      bucketKeys == {Concat(<<Str(p[1]), p[2]>>) : p \in pairs}
      pairOf(k) == CHOOSE p \in pairs : Concat(<<Str(p[1]), p[2]>>) = k
  IN [k \in (DOMAIN globalPart) \cup bucketKeys |->
        IF k \in bucketKeys
        THEN cfg.Buckets[pairOf(k)[1]].Actions[pairOf(k)[2]]
        ELSE globalPart[k]]

\* loadCircuitBreakerConfig, lines 63-79: the map written to cb.limitations
NewLimitations(cfg) ==
  LET g == cfg.Global
      globalPart == IF g.Present /\ g.Enabled /\ Cardinality(DOMAIN g.Actions) > 0
                    THEN g.Actions ELSE EmptyMap
      enabledBuckets == {b \in DOMAIN cfg.Buckets : cfg.Buckets[b].Enabled}
      pairs == {<<b, a>> \in enabledBuckets \X UNION {DOMAIN cfg.Buckets[b].Actions : b \in enabledBuckets} :
                  a \in DOMAIN cfg.Buckets[b].Actions}
      bucketKeys == {Concat(<<Str(p[1]), p[2]>>) : p \in pairs}
      pairOf(k) == CHOOSE p \in pairs : Concat(<<Str(p[1]), p[2]>>) = k
  IN [k \in (DOMAIN globalPart) \cup bucketKeys |->
        IF k \in bucketKeys
        THEN cfg.Buckets[pairOf(k)[1]].Actions[pairOf(k)[2]]
        ELSE globalPart[k]]

VARIABLES
  Enabled,      \* cb.Enabled
  limitations,  \* cb.limitations: key -> threshold
  counters,     \* cb.counters: key -> *atomic.Int64 (index into heap)
  heap,         \* the atomic.Int64 objects allocated so far, by index
  mutex,        \* cb.Mutex: 0 when free, else the worker holding it
  lpc,          \* loader position: "construct", "idle", "L70", "L81"
  lcfg,         \* the decoded configuration the loader is installing
  loadErr,      \* error returned by the last finished load
  loaded,       \* history: some load has succeeded
  reloads,      \* number of loads called after construction
  constructed,  \* NewCircuitBreaker has returned; requests are served
  pc,           \* per worker: source line of the next shared access
  bucket,       \* per worker: vars["bucket"]
  clen,         \* per worker: r.ContentLength
  chk,          \* per worker: which of the four checks of limit() runs
  max,          \* per worker: max read at line 153
  counter,      \* per worker: counter pointer obtained at 154/157
  rollback,     \* per worker: release closures collected, <<counter, inc>>
  errCode,      \* per worker: error code returned by limit()
  quiet,        \* history, per worker: no other goroutine has taken a step
                \* since this request entered the gate
  seen          \* history, per worker: cb.limitations as the request's first
                \* check read it at line 153

shared == <<Enabled, limitations, counters, heap, mutex>>
loader == <<lpc, lcfg, loadErr, loaded, constructed, reloads>>
locals == <<pc, bucket, clen, chk, max, counter, rollback, errCode, seen>>
vars == <<Enabled, limitations, counters, heap, mutex, lpc, lcfg, loadErr, loaded, constructed, reloads,
          pc, bucket, clen, chk, max, counter, rollback, errCode, quiet, seen>>

\* ------------------------------------------------------------------ Init
\* NewCircuitBreaker, lines 26-29: empty maps, Enabled false; the fetch and
\* the first load follow as loader steps before any request is served
Init ==
  /\ Enabled = FALSE
  /\ limitations = EmptyMap
  /\ counters = EmptyMap
  /\ heap = <<>>
  /\ mutex = 0
  /\ lpc = "construct"
  /\ lcfg = CfgEmpty
  /\ loadErr = "nil"
  /\ loaded = FALSE
  /\ constructed = FALSE
  /\ reloads = 0
  /\ pc = [w \in AllWorkers |-> "idle"]
  /\ bucket = [w \in AllWorkers |-> ""]
  /\ clen = [w \in AllWorkers |-> 0]
  /\ chk = [w \in AllWorkers |-> 0]
  /\ max = [w \in AllWorkers |-> 0]
  /\ counter = [w \in AllWorkers |-> 0]
  /\ rollback = [w \in AllWorkers |-> <<>>]
  /\ errCode = [w \in AllWorkers |-> ErrNone]
  /\ quiet = [w \in AllWorkers |-> FALSE]
  /\ seen = [w \in AllWorkers |-> EmptyMap]

\* ---------------------------------------------------------------- loader
NoneQuiet == [w \in AllWorkers |-> FALSE]

\* a failed decode installs the zero configuration instead of returning
LoadZeroConfigOnError(content) ==
  LET parsed == ParseS3ConfigurationFromBytes(content)
  IN IF parsed.err # "nil"
     THEN /\ loadErr' = parsed.err
          /\ lpc' = "idle"
          /\ constructed' = TRUE
          /\ Enabled' = FALSE
          /\ limitations' = EmptyMap
          /\ UNCHANGED <<lcfg, loaded>>
          /\ UNCHANGED <<counters, heap, mutex>>
     ELSE /\ lcfg' = parsed.cfg
          /\ lpc' = "L70"
          /\ UNCHANGED <<loadErr, loaded, constructed>>
          /\ UNCHANGED shared

\* LoadS3ApiConfigurationFromBytes, lines 46-52: decode; on failure return
\* the error, on success enter loadCircuitBreakerConfig
LoadS3ApiConfigurationFromBytes(content) ==
  LET parsed == ParseS3ConfigurationFromBytes(content)
  IN IF parsed.err # "nil"
     THEN /\ loadErr' = parsed.err
          /\ lpc' = "idle"
          /\ constructed' = TRUE
          /\ UNCHANGED <<lcfg, loaded>>
          /\ UNCHANGED shared
     ELSE /\ lcfg' = parsed.cfg
          /\ lpc' = "L70"
          /\ UNCHANGED <<loadErr, loaded, constructed>>
          /\ UNCHANGED shared

\* NewCircuitBreaker, lines 31-41: the read of the configuration file fails;
\* the error is logged and the breaker is returned as constructed
FetchFail ==
  /\ lpc = "construct"
  /\ lpc' = "idle"
  /\ loadErr' = "read error"
  /\ constructed' = TRUE
  /\ quiet' = NoneQuiet
  /\ UNCHANGED <<lcfg, loaded, reloads>>
  /\ UNCHANGED shared
  /\ UNCHANGED locals

\* NewCircuitBreaker, lines 31-37: the read succeeds and the content is loaded
Construct(cfgs) ==
  /\ lpc = "construct"
  /\ UNCHANGED reloads
  /\ \E content \in Contents(cfgs) : LoadS3ApiConfigurationFromBytes(content)
  /\ quiet' = NoneQuiet
  /\ UNCHANGED locals

\* a later call of LoadS3ApiConfigurationFromBytes by the configuration
\* watcher; the model stops after MaxReloads of them
Reload(cfgs) ==
  /\ lpc = "idle"
  /\ constructed
  /\ reloads < MaxReloads
  /\ reloads' = reloads + 1
  /\ \E content \in Contents(cfgs) : LoadS3ApiConfigurationFromBytes(content)
  /\ quiet' = NoneQuiet
  /\ UNCHANGED locals

\* loadCircuitBreakerConfig, line 70: cb.Enabled = globalEnabled
L70 ==
  /\ lpc = "L70"
  /\ Enabled' = NewEnabled(lcfg)
  /\ lpc' = "L81"
  /\ quiet' = NoneQuiet
  /\ UNCHANGED <<limitations, counters, heap, mutex>>
  /\ UNCHANGED <<lcfg, loadErr, loaded, constructed, reloads>>
  /\ UNCHANGED locals

\* the reload also starts a fresh counter map
L81ResetCounters ==
  /\ lpc = "L81"
  /\ limitations' = NewLimitations(lcfg)
  /\ counters' = EmptyMap
  /\ lpc' = "idle"
  /\ lcfg' = CfgEmpty
  /\ loadErr' = "nil"
  /\ loaded' = TRUE
  /\ constructed' = TRUE
  /\ quiet' = NoneQuiet
  /\ UNCHANGED <<Enabled, heap, mutex, reloads>>
  /\ UNCHANGED locals

\* loadCircuitBreakerConfig, lines 81-82: cb.limitations = limitations; return nil
L81 ==
  /\ lpc = "L81"
  /\ limitations' = NewLimitations(lcfg)
  /\ lpc' = "idle"
  /\ lcfg' = CfgEmpty
  /\ loadErr' = "nil"
  /\ loaded' = TRUE
  /\ constructed' = TRUE
  /\ quiet' = NoneQuiet
  /\ UNCHANGED <<Enabled, counters, heap, mutex, reloads>>
  /\ UNCHANGED locals

\* --------------------------------------------------------------- requests
\* limit(), lines 113/122/131/140: the arguments of the chk-th call of
\* loadCounterAndCompare
Scope(w) == IF chk[w] \in {1, 2} THEN bucket[w] ELSE ""
LimitType(w) == IF chk[w] \in {1, 3} THEN LimitTypeCount ELSE LimitTypeBytes
Inc(w) == IF chk[w] \in {1, 3} THEN 1 ELSE clen[w]
ErrOf(w) == IF chk[w] \in {1, 3} THEN ErrTooManyRequest ELSE ErrRequestBytesExceed

\* the negation of line 87 left out
DisabledInverted(enabled) == enabled

\* Limit, line 87: if !cb.Enabled
Disabled(enabled) == ~enabled

\* the ok of line 153 ignored: a missing key reads as the zero threshold
LookupZeroValue(lims, key) ==
  IF key \in DOMAIN lims THEN [ok |-> TRUE, max |-> lims[key]] ELSE [ok |-> TRUE, max |-> 0]

\* loadCounterAndCompare, line 153: max, ok := cb.limitations[key]
Lookup(lims, key) ==
  IF key \in DOMAIN lims THEN [ok |-> TRUE, max |-> lims[key]] ELSE [ok |-> FALSE, max |-> 0]

\* the pre-check of line 165 with >= for >
PreCheckOffByOne(current, inc, maxv) == current + inc >= maxv

\* the pre-check of line 165 left out
PreCheckNever(current, inc, maxv) == FALSE

\* loadCounterAndCompare, line 165: if current+inc > max
PreCheck(current, inc, maxv) == current + inc > maxv

\* the re-check of line 174 left out
PostCheckNever(current, maxv) == FALSE

\* the re-check of line 174 with >= for >
PostCheckStrict(current, maxv) == current >= maxv

\* the re-check of line 174 one too lenient
PostCheckLenient(current, maxv) == current > maxv + 1

\* loadCounterAndCompare, line 174: if current > max
PostCheck(current, maxv) == current > maxv

\* loadCounterAndCompare, line 169: counter.Add(inc)
Add(h, c, inc) == [h EXCEPT ![c] = @ + inc]

\* the release takes one off the counter whatever was added
SubOne(h, c, inc) == [h EXCEPT ![c] = @ - 1]

\* loadCounterAndCompare, lines 170-172: f = func() { counter.Sub(inc) }
Sub(h, c, inc) == [h EXCEPT ![c] = @ - inc]

\* the release assigned to rollback instead of appended
CollectLast(rb, f) == <<f>>

\* limit(), lines 114-116: a non-nil release is appended to rollback
Collect(rb, f) == Append(rb, f)

\* loadCounterAndCompare, line 151
Key(w) == Concat(<<Str(Scope(w)), Str(Action), Str(LimitType(w))>>)

\* a request outside the gate: not started, or its handler is running
Outside(v) == pc[v] \in {"idle", "L88", "L103"}

\* this worker steps: every other request loses its "quiet" mark
StepQuiet(w) == [v \in AllWorkers |-> IF v = w THEN quiet[w] ELSE FALSE]

\* the request is over: the goroutine's frame is gone
Finish(w) ==
  /\ pc' = [pc EXCEPT ![w] = "idle"]
  /\ bucket' = [bucket EXCEPT ![w] = ""]
  /\ clen' = [clen EXCEPT ![w] = 0]
  /\ chk' = [chk EXCEPT ![w] = 0]
  /\ max' = [max EXCEPT ![w] = 0]
  /\ counter' = [counter EXCEPT ![w] = 0]
  /\ errCode' = [errCode EXCEPT ![w] = ErrNone]
  /\ seen' = [seen EXCEPT ![w] = EmptyMap]
  /\ quiet' = [v \in AllWorkers |-> FALSE]

\* loadCounterAndCompare returned ErrNone to limit(): lines 117, 126, 135,
\* 144: go on to the next check, or return to Limit (line 102: call f)
Passed(w) ==
  /\ max' = [max EXCEPT ![w] = 0]
  /\ counter' = [counter EXCEPT ![w] = 0]
  /\ IF chk[w] < 4
     THEN /\ chk' = [chk EXCEPT ![w] = chk[w] + 1]
          /\ pc' = [pc EXCEPT ![w] = "L153"]
     ELSE /\ pc' = [pc EXCEPT ![w] = "L103"]
          /\ UNCHANGED chk
  /\ UNCHANGED errCode

\* the returns of lines 118, 127, 136 left out: limit() keeps the error code
\* and goes on to the next check
RejectedGoesOn(w) ==
  /\ errCode' = [errCode EXCEPT ![w] = ErrOf(w)]
  /\ max' = [max EXCEPT ![w] = 0]
  /\ counter' = [counter EXCEPT ![w] = 0]
  /\ IF chk[w] < 4
     THEN /\ chk' = [chk EXCEPT ![w] = chk[w] + 1]
          /\ pc' = [pc EXCEPT ![w] = "L153"]
     ELSE /\ pc' = [pc EXCEPT ![w] = "L106"]
          /\ UNCHANGED chk

\* the test of line 102 left out: the handler runs whatever limit() returned
RejectedRunsHandler(w) ==
  /\ errCode' = [errCode EXCEPT ![w] = ErrOf(w)]
  /\ pc' = [pc EXCEPT ![w] = "L103"]
  /\ max' = [max EXCEPT ![w] = 0]
  /\ counter' = [counter EXCEPT ![w] = 0]
  /\ UNCHANGED chk

\* loadCounterAndCompare returned errCode: limit() returns it, Limit goes to
\* line 106
Rejected(w) ==
  /\ errCode' = [errCode EXCEPT ![w] = ErrOf(w)]
  /\ pc' = [pc EXCEPT ![w] = "L106"]
  /\ max' = [max EXCEPT ![w] = 0]
  /\ counter' = [counter EXCEPT ![w] = 0]
  /\ UNCHANGED chk

\* Limit, lines 86-95: a request arrives and reads cb.Enabled
L87(w, buckets, lens) ==
  /\ pc[w] = "idle"
  /\ constructed
  /\ \E b \in buckets, n \in lens :
       /\ bucket' = [bucket EXCEPT ![w] = b]
       /\ clen' = [clen EXCEPT ![w] = n]
  /\ IF Disabled(Enabled)
     THEN /\ pc' = [pc EXCEPT ![w] = "L88"]
          /\ UNCHANGED chk
     ELSE /\ pc' = [pc EXCEPT ![w] = "L153"]
          /\ chk' = [chk EXCEPT ![w] = 1]
  /\ quiet' = [v \in AllWorkers |-> IF v = w THEN \A u \in AllWorkers \ {w} : Outside(u) ELSE FALSE]
  /\ UNCHANGED <<max, counter, rollback, errCode, seen>>
  /\ UNCHANGED shared
  /\ UNCHANGED loader

\* Limit, lines 88-89: the breaker is off; the handler runs and returns
L88(w) ==
  /\ pc[w] = "L88"
  /\ Finish(w)
  /\ UNCHANGED rollback
  /\ UNCHANGED shared
  /\ UNCHANGED loader

\* loadCounterAndCompare, line 153: max, ok := cb.limitations[key]
L153(w) ==
  /\ pc[w] = "L153"
  /\ LET found == Lookup(limitations, Key(w))
     IN IF found.ok
        THEN /\ max' = [max EXCEPT ![w] = found.max]
             /\ pc' = [pc EXCEPT ![w] = "L154"]
             /\ UNCHANGED <<chk, counter, errCode>>
        ELSE Passed(w)
  /\ seen' = [seen EXCEPT ![w] = IF chk[w] = 1 THEN limitations ELSE @]
  /\ quiet' = StepQuiet(w)
  /\ UNCHANGED <<bucket, clen, rollback>>
  /\ UNCHANGED shared
  /\ UNCHANGED loader

\* loadCounterAndCompare, lines 154-155: counter, exists := cb.counters[key]
L154(w) ==
  /\ pc[w] = "L154"
  /\ IF Key(w) \in DOMAIN counters
     THEN /\ counter' = [counter EXCEPT ![w] = counters[Key(w)]]
          /\ pc' = [pc EXCEPT ![w] = "L164"]
     ELSE /\ pc' = [pc EXCEPT ![w] = "L156"]
          /\ UNCHANGED counter
  /\ quiet' = StepQuiet(w)
  /\ UNCHANGED <<bucket, clen, chk, max, rollback, errCode, seen>>
  /\ UNCHANGED shared
  /\ UNCHANGED loader

\* loadCounterAndCompare, line 156: cb.Lock()
L156(w) ==
  /\ pc[w] = "L156"
  /\ mutex = 0
  /\ mutex' = w
  /\ pc' = [pc EXCEPT ![w] = "L157"]
  /\ quiet' = StepQuiet(w)
  /\ UNCHANGED <<bucket, clen, chk, max, counter, rollback, errCode, seen>>
  /\ UNCHANGED <<Enabled, limitations, counters, heap>>
  /\ UNCHANGED loader

\* the second lookup of line 157 left out: a new counter is installed
\* whatever the map holds by now
L157NoRecheck(w) ==
  /\ pc[w] = "L157"
  /\ heap' = Append(heap, 0)
  /\ counters' = Put(counters, Key(w), Len(heap) + 1)
  /\ counter' = [counter EXCEPT ![w] = Len(heap) + 1]
  /\ mutex' = 0
  /\ pc' = [pc EXCEPT ![w] = "L164"]
  /\ quiet' = StepQuiet(w)
  /\ UNCHANGED <<bucket, clen, chk, max, rollback, errCode, seen>>
  /\ UNCHANGED <<Enabled, limitations>>
  /\ UNCHANGED loader

\* loadCounterAndCompare, lines 157-162: look the key up again under the
\* lock, install a new counter if it is still absent, cb.Unlock()
L157(w) ==
  /\ pc[w] = "L157"
  /\ IF Key(w) \in DOMAIN counters
     THEN /\ counter' = [counter EXCEPT ![w] = counters[Key(w)]]
          /\ UNCHANGED <<counters, heap>>
     ELSE /\ heap' = Append(heap, 0)
          /\ counters' = Put(counters, Key(w), Len(heap) + 1)
          /\ counter' = [counter EXCEPT ![w] = Len(heap) + 1]
  /\ mutex' = 0
  /\ pc' = [pc EXCEPT ![w] = "L164"]
  /\ quiet' = StepQuiet(w)
  /\ UNCHANGED <<bucket, clen, chk, max, rollback, errCode, seen>>
  /\ UNCHANGED <<Enabled, limitations>>
  /\ UNCHANGED loader

\* loadCounterAndCompare, lines 164-168: current := counter.Load(); the
\* pre-check current+inc > max
L164(w) ==
  /\ pc[w] = "L164"
  /\ IF PreCheck(heap[counter[w]], Inc(w), max[w])
     THEN Rejected(w)
     ELSE /\ pc' = [pc EXCEPT ![w] = "L169"]
          /\ UNCHANGED <<chk, max, counter, errCode>>
  /\ quiet' = StepQuiet(w)
  /\ UNCHANGED <<bucket, clen, rollback, seen>>
  /\ UNCHANGED shared
  /\ UNCHANGED loader

\* loadCounterAndCompare, lines 169-172: counter.Add(inc); f releases it.
\* limit() appends f to rollback when the call returns (lines 114, 123, ...)
L169(w) ==
  /\ pc[w] = "L169"
  /\ heap' = Add(heap, counter[w], Inc(w))
  /\ rollback' = [rollback EXCEPT ![w] = Collect(@, <<counter[w], Inc(w)>>)]
  /\ pc' = [pc EXCEPT ![w] = "L173"]
  /\ quiet' = StepQuiet(w)
  /\ UNCHANGED <<bucket, clen, chk, max, counter, errCode, seen>>
  /\ UNCHANGED <<Enabled, limitations, counters, mutex>>
  /\ UNCHANGED loader

\* loadCounterAndCompare, lines 173-177: current = counter.Load(); the
\* re-check current > max
L173(w) ==
  /\ pc[w] = "L173"
  /\ IF PostCheck(heap[counter[w]], max[w])
     THEN Rejected(w)
     ELSE Passed(w)
  /\ quiet' = StepQuiet(w)
  /\ UNCHANGED <<bucket, clen, rollback, seen>>
  /\ UNCHANGED shared
  /\ UNCHANGED loader

\* Limit, lines 96-104 and 106: the handler f (or WriteErrorResponse)
\* returns and the deferred function starts
Return(w) ==
  IF rollback[w] = <<>>
  THEN /\ Finish(w)
       /\ UNCHANGED rollback
  ELSE /\ pc' = [pc EXCEPT ![w] = "L97"]
       /\ quiet' = StepQuiet(w)
       /\ UNCHANGED <<bucket, clen, chk, max, counter, rollback, errCode, seen>>

\* Limit, lines 102-104: the wrapped handler f(w, r) returns
L103(w) ==
  /\ pc[w] = "L103"
  /\ Return(w)
  /\ UNCHANGED shared
  /\ UNCHANGED loader

\* Limit, line 106: s3err.WriteErrorResponse(w, r, errCode) returns
L106(w) ==
  /\ pc[w] = "L106"
  /\ Return(w)
  /\ UNCHANGED shared
  /\ UNCHANGED loader

\* Limit, lines 97-99: the next rf() of the deferred loop: counter.Sub(inc)
L97(w) ==
  /\ pc[w] = "L97"
  /\ heap' = Sub(heap, Head(rollback[w])[1], Head(rollback[w])[2])
  /\ rollback' = [rollback EXCEPT ![w] = Tail(@)]
  /\ IF Tail(rollback[w]) = <<>>
     THEN Finish(w)
     ELSE /\ quiet' = StepQuiet(w)
          /\ UNCHANGED <<pc, bucket, clen, chk, max, counter, errCode, seen>>
  /\ UNCHANGED <<Enabled, limitations, counters, mutex>>
  /\ UNCHANGED loader

Request(w, buckets, lens) ==
  \/ L87(w, buckets, lens)
  \/ L88(w)
  \/ L153(w)
  \/ L154(w)
  \/ L156(w)
  \/ L157(w)
  \/ L164(w)
  \/ L169(w)
  \/ L173(w)
  \/ L103(w)
  \/ L106(w)
  \/ L97(w)

\* ---------------------------------------------------------- specifications
\* requests and reloads, any declared length
Next ==
  \/ FetchFail
  \/ Construct(Configs)
  \/ Reload(Configs)
  \/ L70
  \/ L81
  \/ \E w \in Workers : Request(w, ReloadBuckets, ReloadLens)

Spec == Init /\ [][Next]_vars

\* the Limit Table is the one loaded at construction
NextFixed ==
  \/ FetchFail
  \/ Construct(FixedConfigs)
  \/ L70
  \/ L81
  \/ \E w \in Workers : Request(w, Buckets, Lens)

SpecFixed == Init /\ [][NextFixed]_vars

\* NewCircuitBreaker, lines 26-43, as one goroutine: its steps when the
\* Limit Table is loaded once, at construction
ConstructConcurrent ==
  \/ FetchFail
  \/ Construct(ConcurrentConfigs)
  \/ L70
  \/ L81

\* fixed Limit Table, non-negative declared lengths, more concurrency; every
\* goroutine that can take a step eventually does: the constructor runs to
\* its return, a request to its release
NextConcurrent ==
  \/ ConstructConcurrent
  \/ \E w \in ConcurrentWorkers : Request(w, Buckets, NonNegLens)

SpecConcurrent ==
  /\ Init
  /\ [][NextConcurrent]_vars
  /\ WF_vars(ConstructConcurrent)
  /\ \A w \in ConcurrentWorkers : WF_vars(Request(w, Buckets, NonNegLens))

\* the loader alone: construction and reloads of any configuration
NextLoad ==
  \/ FetchFail
  \/ Construct(LoadConfigs)
  \/ Reload(LoadConfigs)
  \/ L70
  \/ L81

SpecLoad == Init /\ [][NextLoad]_vars

\* ------------------------------------------------------- shared notions
BucketKey(b, limitType) == Concat(<<Str(b), Str(Action), Str(limitType)>>)
GlobalKey(limitType) == Concat(<<Str(""), Str(Action), Str(limitType)>>)

\* the four Limit Keys of the request of worker w
KeysOf(w) ==
  {BucketKey(bucket[w], LimitTypeCount), BucketKey(bucket[w], LimitTypeBytes),
   GlobalKey(LimitTypeCount), GlobalKey(LimitTypeBytes)}

\* the request of w read Enabled as true and is inside Limit
Gated(w) == chk[w] >= 1

\* the handler of w runs after the gate admitted it
InFlight(w) == pc[w] = "L103"

\* check i of the request of w has returned ErrNone
PassedCheck(w, i) == Gated(w) /\ (chk[w] > i \/ InFlight(w))

\* check i of the request of w has returned its error code
RejectedAt(w, i) == pc[w] = "L106" /\ chk[w] = i

\* admitted requests of the bucket of w whose handler is running, w aside
OthersInFlight(w) == {v \in AllWorkers \ {w} : InFlight(v) /\ bucket[v] = bucket[w]}

\* the increments worker w holds on counter c
RECURSIVE HeldIn(_, _)
HeldIn(rb, c) ==
  IF rb = <<>> THEN 0
  ELSE (IF Head(rb)[1] = c THEN Head(rb)[2] ELSE 0) + HeldIn(Tail(rb), c)

Holders(c) == {w \in AllWorkers : \E i \in 1..Len(rollback[w]) : rollback[w][i][1] = c}

AllIdle == \A w \in AllWorkers : pc[w] = "idle"

\* ------------------------------------------------------------------- C1
\* C1: with the breaker enabled and a count threshold N for (bucket, Write),
\* a request that passes the gate alone while k admitted requests of that
\* bucket are in flight passes the count check exactly when k < N, is
\* rejected with ErrTooManyRequest when k = N, and is admitted (its handler
\* runs) when k < N and the table holds no other key of the request.
CountGate ==
  \A w \in AllWorkers :
    LET K == BucketKey(bucket[w], LimitTypeCount)
        k == Cardinality(OthersInFlight(w))
    IN (quiet[w] /\ Gated(w) /\ K \in DOMAIN limitations) =>
         /\ PassedCheck(w, 1) => k < limitations[K]
         /\ RejectedAt(w, 1) => k = limitations[K] /\ errCode[w] = ErrTooManyRequest
         /\ (pc[w] = "L106" /\ KeysOf(w) \cap DOMAIN limitations = {K}) => k = limitations[K]

\* two requests admitted and in flight, the third rejected by the count check
CountGateWitness ==
  \E w \in AllWorkers :
    /\ quiet[w]
    /\ RejectedAt(w, 1)
    /\ errCode[w] = ErrTooManyRequest
    /\ BucketKey(bucket[w], LimitTypeCount) \in DOMAIN limitations
    /\ limitations[BucketKey(bucket[w], LimitTypeCount)] = 2
    /\ Cardinality(OthersInFlight(w)) = 2

\* a request admitted after one of the N in flight released its increment
CountGateReadmit ==
  \E w \in AllWorkers :
    /\ quiet[w]
    /\ InFlight(w)
    /\ BucketKey(bucket[w], LimitTypeCount) \in DOMAIN limitations
    /\ Cardinality(OthersInFlight(w)) + 1 = limitations[BucketKey(bucket[w], LimitTypeCount)]
    /\ rollback[w] # <<>>

\* ------------------------------------------------------------------- C2
\* C2: once every request has completed, every counter is back at the value
\* it had before the requests began (zero, its value when created), and no
\* release is left to run.
ReleasedWhenIdle ==
  AllIdle => /\ \A c \in 1..Len(heap) : heap[c] = 0
             /\ \A w \in AllWorkers : rollback[w] = <<>>

\* all requests done after both counters were used and the table reloaded
ReleasedWhenIdleWitness ==
  /\ AllIdle
  /\ Len(heap) = 2
  /\ reloads >= 1
  /\ loaded

\* ------------------------------------------------------------------- C3
\* C3: a request that reads Enabled as false goes straight to the wrapped
\* handler and from there to its end: it is never rejected, holds no
\* release, and none of its steps creates or changes a counter, whatever
\* the Limit Table holds.
DisabledPassThrough ==
  /\ [](\A w \in AllWorkers :
          pc[w] = "L88" => /\ chk[w] = 0
                           /\ errCode[w] = ErrNone
                           /\ rollback[w] = <<>>
                           /\ counter[w] = 0)
  /\ [][\A w \in AllWorkers :
          /\ (pc[w] = "idle" /\ pc'[w] # "idle" /\ ~Enabled) =>
                (pc'[w] = "L88" /\ UNCHANGED <<counters, heap>>)
          /\ (pc[w] = "L88" /\ pc'[w] # "L88") =>
                (pc'[w] = "idle" /\ UNCHANGED <<counters, heap>>)]_vars

\* the handler runs with the breaker off while the bucket's count threshold
\* is in the table, enabled for the bucket, and already reached
DisabledPassThroughWitness ==
  \E w \in AllWorkers :
    LET K == BucketKey(bucket[w], LimitTypeCount)
    IN /\ pc[w] = "L88"
       /\ ~Enabled
       /\ K \in DOMAIN limitations
       /\ K \in DOMAIN counters
       /\ heap[counters[K]] >= limitations[K]

\* ------------------------------------------------------------------- C4
\* C4: with a fixed Limit Table, a request none of whose four keys is in
\* the table passes every check and is admitted, holds no release, and
\* none of its steps creates or changes a counter.
NoKeyAdmitted ==
  /\ [](\A w \in AllWorkers :
          (Gated(w) /\ KeysOf(w) \cap DOMAIN limitations = {}) =>
             /\ pc[w] \in {"L153", "L103"}
             /\ errCode[w] = ErrNone
             /\ rollback[w] = <<>>
             /\ counter[w] = 0)
  /\ [][\A w \in AllWorkers :
          (Gated(w) /\ KeysOf(w) \cap DOMAIN limitations = {} /\ pc'[w] # pc[w]) =>
             UNCHANGED <<counters, heap>>]_vars

\* such a request is in flight while a bucket that has a threshold is full
NoKeyAdmittedWitness ==
  \E w \in AllWorkers, v \in AllWorkers :
    LET K == BucketKey(bucket[v], LimitTypeCount)
    IN /\ Gated(w) /\ InFlight(w)
       /\ KeysOf(w) \cap DOMAIN limitations = {}
       /\ InFlight(v)
       /\ K \in DOMAIN limitations
       /\ K \in DOMAIN counters
       /\ heap[counters[K]] = limitations[K]

\* ------------------------------------------------------------------- C5
\* C5: with a bytes threshold M for (bucket, Write), a request of that
\* bucket whose declared length exceeds M and whose count check passed is
\* rejected by the bytes check with ErrRequestBytesExceed and holds no
\* increment of the bytes counter.
BytesOverLimitRejected ==
  \A w \in AllWorkers :
    LET K == BucketKey(bucket[w], LimitTypeBytes)
    IN (/\ Gated(w)
        /\ K \in DOMAIN limitations
        /\ clen[w] > limitations[K]
        /\ (PassedCheck(w, 2) \/ RejectedAt(w, 2))) =>
          /\ RejectedAt(w, 2)
          /\ errCode[w] = ErrRequestBytesExceed
          /\ K \in DOMAIN counters
          /\ HeldIn(rollback[w], counters[K]) = 0

\* ------------------------------------------------------------------- C6
\* C6: with a count threshold N loaded from the enabled global section, the
\* third check of a request looks up the key that threshold is stored
\* under, and a request that passes the gate alone while N admitted
\* requests are in flight does not pass the third check.
GlobalCountEnforced ==
  \A w \in AllWorkers :
    LET G == ActionKey(Action, LimitTypeCount)
    IN (quiet[w] /\ Gated(w) /\ Enabled /\ G \in DOMAIN limitations) =>
         /\ (pc[w] = "L153" /\ chk[w] = 3) => Key(w) = G
         /\ PassedCheck(w, 3) =>
              Cardinality({v \in AllWorkers \ {w} : InFlight(v)}) < limitations[G]

\* ------------------------------------------------------------------- C7
\* a step of the configuration loader
LoaderStep == <<lpc, loadErr, reloads, constructed>>' # <<lpc, loadErr, reloads, constructed>>

\* C7: no step of a load changes a counter's value or the Counter Store,
\* and a request that passes the gate alone after a reload is checked
\* against the table as it now is and the counter as the requests in
\* flight left it: it passes the count check only if the counter, with its
\* own increment, is within the current threshold, and is rejected only if
\* one more would exceed it.
ReloadKeepsCounters ==
  /\ [][LoaderStep => UNCHANGED <<counters, heap>>]_vars
  /\ [](\A w \in AllWorkers :
          LET K == BucketKey(bucket[w], LimitTypeCount)
          IN (quiet[w] /\ Gated(w) /\ K \in DOMAIN limitations) =>
               /\ (PassedCheck(w, 1) /\ pc[w] # "L97") =>
                     /\ K \in DOMAIN counters
                     /\ HeldIn(rollback[w], counters[K]) = 1
                     /\ heap[counters[K]] <= limitations[K]
               /\ RejectedAt(w, 1) =>
                     /\ K \in DOMAIN counters
                     /\ heap[counters[K]] + 1 > limitations[K])

\* one request admitted under threshold 1 is still in flight, the threshold
\* is now 2, a second request was admitted under it, and the counter is 2
ReloadKeepsCountersWitness ==
  \E w \in AllWorkers, v \in AllWorkers :
    LET K == BucketKey(bucket[w], LimitTypeCount)
    IN /\ v # w
       /\ InFlight(w) /\ InFlight(v)
       /\ bucket[v] = bucket[w]
       /\ K \in DOMAIN seen[w] /\ seen[w][K] = 1
       /\ K \in DOMAIN seen[v] /\ seen[v][K] = 2
       /\ K \in DOMAIN limitations /\ limitations[K] = 2
       /\ K \in DOMAIN counters /\ heap[counters[K]] = 2
       /\ HeldIn(rollback[w], counters[K]) = 1
       /\ HeldIn(rollback[v], counters[K]) = 1

\* ------------------------------------------------------------------ C10
\* C10: a load that ends without installing a configuration (the read or
\* the decode failed) returns an error and leaves Enabled, the Limit Table
\* and the counters as they were; while no load has succeeded the table is
\* empty and no request is rejected, and, no load being under way, Enabled
\* is false.
FailedLoadKeepsState ==
  /\ [][(LoaderStep /\ lpc # "L81" /\ lpc' = "idle") =>
          (loadErr' # "nil" /\ UNCHANGED <<Enabled, limitations, counters, heap>>)]_vars
  /\ []((~loaded /\ lpc # "L81") => ~Enabled)
  /\ [](~loaded => /\ limitations = EmptyMap
                   /\ \A w \in AllWorkers : pc[w] # "L106" /\ errCode[w] = ErrNone)

\* a decode has just failed after an earlier load succeeded: the breaker is
\* still on, with its table and with a counter held by a request in flight
FailedLoadKeepsStateWitness ==
  /\ loadErr = "unmarshal error"
  /\ lpc = "idle"
  /\ loaded
  /\ Enabled
  /\ limitations # EmptyMap
  /\ \E w \in AllWorkers : InFlight(w) /\ rollback[w] # <<>>

\* the breaker was constructed from undecodable content and serves requests
NeverLoadedWitness ==
  /\ ~loaded
  /\ constructed
  /\ loadErr = "unmarshal error"
  /\ \E w \in AllWorkers : pc[w] = "L88"

\* ------------------------------------------------------------------- C8
RECURSIVE SumHeld(_, _)
SumHeld(S, c) ==
  IF S = {} THEN 0
  ELSE LET w == CHOOSE x \in S : TRUE
       IN HeldIn(rollback[w], c) + SumHeld(S \ {w}, c)

\* the largest increment one request holds on counter c, 0 when none does
MaxHeld(c) ==
  IF Holders(c) = {} THEN 0
  ELSE LET w == CHOOSE x \in Holders(c) : \A y \in Holders(c) : HeldIn(rollback[y], c) <= HeldIn(rollback[x], c)
       IN HeldIn(rollback[w], c)

BytesKeys == {BucketKey(b, LimitTypeBytes) : b \in Buckets} \cup {GlobalKey(LimitTypeBytes)}

\* C8, as claimed: the bytes counter exceeds its threshold M by at most the
\* declared length of one request holding an increment.
OvershootOneRequest ==
  \A K \in BytesKeys \cap DOMAIN limitations \cap DOMAIN counters :
    heap[counters[K]] <= limitations[K] + MaxHeld(counters[K])

\* C8, amended: the bytes counter exceeds its threshold M by at most the
\* declared lengths of all the requests holding an increment but the
\* largest of them.
OvershootAllButOne ==
  \A K \in BytesKeys \cap DOMAIN limitations \cap DOMAIN counters :
    LET c == counters[K]
    IN heap[c] <= limitations[K] + SumHeld(Holders(c), c) - MaxHeld(c)

\* three requests hold an increment and the counter is as far above the
\* threshold as the amended bound allows, further than one request's length
OvershootWitness ==
  \E K \in BytesKeys \cap DOMAIN limitations \cap DOMAIN counters :
    LET c == counters[K]
    IN /\ Cardinality(Holders(c)) = 3
       /\ heap[c] = limitations[K] + SumHeld(Holders(c), c) - MaxHeld(c)
       /\ heap[c] > limitations[K] + MaxHeld(c)

\* ------------------------------------------------------------------- C9
\* two requests of one bucket, each within the bytes threshold M of the
\* bucket, together above it, both admitted and in flight
BothInFlight ==
  \E w \in AllWorkers, v \in AllWorkers :
    LET K == BucketKey(bucket[w], LimitTypeBytes)
    IN /\ v # w
       /\ InFlight(w) /\ InFlight(v)
       /\ bucket[v] = bucket[w]
       /\ K \in DOMAIN limitations
       /\ clen[w] <= limitations[K]
       /\ clen[v] <= limitations[K]
       /\ clen[w] + clen[v] > limitations[K]

\* the breaker is constructed, and it is off or no bucket has a bytes
\* threshold: not the configuration of C9
NoBytesThreshold ==
  /\ constructed
  /\ lpc = "idle"
  /\ \/ ~Enabled
     \/ \A b \in Buckets : BucketKey(b, LimitTypeBytes) \notin DOMAIN limitations

Generations == Configs \cup {CfgEmpty}

\* the request of w has made the first lookup of the Limit Table
ReadTable(w) == Gated(w) /\ ~(pc[w] = "L153" /\ chk[w] = 1)

\* worker w performs the lookup of line 153 in this step
Looks(w) == pc[w] = "L153" /\ <<pc[w], chk[w]>>' # <<pc[w], chk[w]>>

\* C11: a request that read Enabled as true reads the Limit Table of a
\* generation whose Enabled flag is true, and each of its four lookups reads
\* the table its first lookup read.
AtomicReload ==
  /\ [](\A w \in AllWorkers :
          ReadTable(w) =>
            \E g \in Generations : NewEnabled(g) /\ NewLimitations(g) = seen[w])
  /\ [][\A w \in AllWorkers :
          (Looks(w) /\ chk[w] > 1) => limitations = seen[w]]_vars

\* C11, first part alone: the flag and the table a request has read belong
\* to one generation
OneGenerationRead ==
  \A w \in AllWorkers :
    ReadTable(w) => \E g \in Generations : NewEnabled(g) /\ NewLimitations(g) = seen[w]

\* C11, second part alone: the four lookups of a request read one table
OneTablePerRequest ==
  [][\A w \in AllWorkers : (Looks(w) /\ chk[w] > 1) => limitations = seen[w]]_vars

\* ------------------------------------------------------------------ C12
\* the global section is present, enabled and has at least one action
GlobalOn(cfg) ==
  /\ cfg.Global.Present
  /\ cfg.Global.Enabled
  /\ DOMAIN cfg.Global.Actions # {}

\* the entries of a map, as <<key, threshold>> pairs
Entries(m) == {<<k, m[k]>> : k \in DOMAIN m}

\* the entries of the global section, under the keys of its action map
GlobalEntries(cfg) == Entries(cfg.Global.Actions)

\* the entries of bucket b, under the bucket's name joined to the action key
BucketEntries(cfg, b) ==
  {<<Concat(<<Str(b), a>>), cfg.Buckets[b].Actions[a]>> : a \in DOMAIN cfg.Buckets[b].Actions}

\* C12: the step that completes a successful load of configuration lcfg
\* leaves Enabled true exactly when the global section is on, and a Limit
\* Table made of the global entries exactly in that case and of the entries
\* of exactly the buckets whose own flag is true, and of nothing else.
LoadResult ==
  [][(lpc = "L81" /\ lpc' = "idle") =>
       /\ loadErr' = "nil"
       /\ Enabled' = GlobalOn(lcfg)
       /\ Entries(limitations') =
            (IF GlobalOn(lcfg) THEN GlobalEntries(lcfg) ELSE {})
            \cup UNION {BucketEntries(lcfg, b) :
                          b \in {x \in DOMAIN lcfg.Buckets : lcfg.Buckets[x].Enabled}}]_vars

\* a reload has completed with the global section off: Enabled is false and
\* the table holds the entries of the one enabled bucket and nothing else
LoadResultWitness ==
  /\ lpc = "idle"
  /\ loaded
  /\ loadErr = "nil"
  /\ reloads >= 1
  /\ ~Enabled
  /\ Entries(limitations) = {<<BucketKey("b2", LimitTypeBytes), 2>>}

\* ------------------------------------------------------------------ C13
\* the positions of a request inside limit()
GatePcs == {"L153", "L154", "L156", "L157", "L164", "L169", "L173"}

\* C13: a request that read Enabled as true leaves the gate either to the
\* wrapped handler, with no error code, or to the error response, with the
\* code of the rejection, never to both and to neither more than once; its
\* releases run only in the deferred loop, which starts only when the handler
\* or the error response has returned, and the request ends only from there.
AdmitXorReject ==
  /\ [](\A w \in AllWorkers :
          Gated(w) => /\ pc[w] = "L103" => errCode[w] = ErrNone
                      /\ pc[w] = "L106" => errCode[w] \in {ErrTooManyRequest, ErrRequestBytesExceed}
                      /\ pc[w] \in GatePcs => errCode[w] = ErrNone)
  /\ [][\A w \in AllWorkers :
          Gated(w) =>
            /\ (pc'[w] \in {"L103", "L106"} /\ pc[w] # pc'[w]) => pc[w] \in GatePcs
            /\ (pc[w] \in {"L103", "L106"} /\ pc'[w] # pc[w]) => pc'[w] \in {"L97", "idle"}
            /\ (pc[w] = "L97" /\ pc'[w] # pc[w]) => pc'[w] = "idle"
            /\ (pc'[w] = "L97" /\ pc[w] # "L97") => pc[w] \in {"L103", "L106"}
            /\ (pc'[w] = "idle") => pc[w] \in {"L103", "L106", "L97"}
            /\ (pc[w] # "L97") => Len(rollback'[w]) >= Len(rollback[w])
            /\ (pc[w] \in {"L103", "L106"}) => rollback'[w] = rollback[w]
            /\ (pc[w] \in {"L103", "L106"} /\ pc'[w] # pc[w]) => UNCHANGED heap]_vars

\* one request is admitted and its handler runs, another was rejected by a
\* later check and its error response is being written; both still hold
\* their increments
AdmitXorRejectWitness ==
  \E w \in AllWorkers, v \in AllWorkers :
    /\ pc[w] = "L103" /\ Gated(w) /\ rollback[w] # <<>>
    /\ pc[v] = "L106" /\ chk[v] = 2 /\ rollback[v] # <<>>
    /\ \A i \in 1..Len(rollback[v]) : heap[rollback[v][i][1]] >= 1

\* ------------------------------------------------------------------ C14
\* the gate admitted the request of w and it has not finished releasing
Admitted(w) == pc[w] = "L103" \/ (pc[w] = "L97" /\ errCode[w] = ErrNone)

\* the bucket keys of C14: with a fixed table and non-negative lengths, the
\* increments that admitted requests hold on the counter of a key sum to at
\* most the key's threshold; in particular at most N handlers of a bucket
\* with count threshold N run at the same time.
AdmittedWithinThreshold ==
  /\ \A K \in DOMAIN limitations \cap DOMAIN counters :
       SumHeld({w \in AllWorkers : Admitted(w)}, counters[K]) <= limitations[K]
  /\ \A b \in Buckets :
       BucketKey(b, LimitTypeCount) \in DOMAIN limitations =>
         Cardinality({w \in AllWorkers : InFlight(w) /\ bucket[w] = b})
           <= limitations[BucketKey(b, LimitTypeCount)]

\* the counter of a count key is above its threshold N while N handlers run:
\* a request that passed the pre-check with them has added its increment
AdmittedWithinThresholdWitness ==
  \E b \in Buckets :
    LET K == BucketKey(b, LimitTypeCount)
    IN /\ K \in DOMAIN limitations
       /\ K \in DOMAIN counters
       /\ heap[counters[K]] > limitations[K]
       /\ Cardinality({w \in AllWorkers : InFlight(w) /\ bucket[w] = b}) = limitations[K]
       /\ SumHeld({w \in AllWorkers : Admitted(w)}, counters[K]) = limitations[K]

\* the global count key of C14: at most N handlers run at the same time when
\* the enabled global section sets the count threshold N
GlobalHandlersWithinThreshold ==
  LET G == ActionKey(Action, LimitTypeCount)
  IN (Enabled /\ lpc = "idle" /\ G \in DOMAIN limitations) =>
       Cardinality({w \in AllWorkers : InFlight(w)}) <= limitations[G]

\* C14: with a fixed table and non-negative lengths, for every key of the
\* table the increments held by admitted requests are within the key's
\* threshold, and for every count key, of a bucket or global, at most N
\* handlers run at the same time.
HandlersWithinThreshold ==
  /\ AdmittedWithinThreshold
  /\ GlobalHandlersWithinThreshold

\* ------------------------------------------------------------------ C15
\* the arguments of the j-th check of the request of w (lines 113-140)
KeyAt(w, j) ==
  Concat(<<Str(IF j \in {1, 2} THEN bucket[w] ELSE ""), Str(Action),
           Str(IF j \in {1, 3} THEN LimitTypeCount ELSE LimitTypeBytes)>>)
IncAt(w, j) == IF j \in {1, 3} THEN 1 ELSE clen[w]
ErrAt(j) == IF j \in {1, 3} THEN ErrTooManyRequest ELSE ErrRequestBytesExceed

\* with a fixed table: the releases of the checks 1..n of w that found a
\* threshold and passed, in the order of the checks
RECURSIVE Applied(_, _)
Applied(w, n) ==
  IF n = 0 THEN <<>>
  ELSE Applied(w, n - 1) \o
       (IF KeyAt(w, n) \in DOMAIN limitations
        THEN <<<<counters[KeyAt(w, n)], IncAt(w, n)>>>>
        ELSE <<>>)

\* limit() has returned an error code for the request of w
Turned(w) == pc[w] = "L106" \/ (pc[w] = "L97" /\ errCode[w] # ErrNone)

\* worker w takes a step
Steps(w) == <<pc[w], chk[w], rollback[w]>>' # <<pc[w], chk[w], rollback[w]>>

\* the counters of the checks of w after check i
LaterCounters(w, i) ==
  {counters[KeyAt(w, j)] : j \in {x \in (i + 1)..4 : KeyAt(w, x) \in DOMAIN counters}}
    \ {counters[KeyAt(w, j)] : j \in {x \in 1..i : KeyAt(w, x) \in DOMAIN counters}}

\* C15: the checks of a request run in the order 1, 2, 3, 4, and the first
\* one that fails ends them: its error code is returned, the releases
\* collected are those of the earlier checks that found a threshold, and
\* that of the failing check when the re-check failed it; from then on the
\* request creates no counter and changes no counter of a later check.
ShortCircuit ==
  /\ [](\A w \in AllWorkers :
          Turned(w) => errCode[w] = ErrAt(chk[w]))
  /\ [][\A w \in AllWorkers :
          /\ (chk'[w] # chk[w]) =>
               \/ chk'[w] = chk[w] + 1 /\ errCode'[w] = ErrNone
               \/ chk'[w] = 0
          /\ (errCode'[w] # ErrNone /\ errCode[w] = ErrNone) =>
               /\ pc'[w] = "L106"
               /\ chk'[w] = chk[w]
               /\ errCode'[w] = ErrAt(chk[w])
          /\ (pc[w] = "L164" /\ pc'[w] = "L106") =>
               rollback'[w] = Applied(w, chk[w] - 1)
          /\ (pc[w] = "L173" /\ pc'[w] = "L106") =>
               rollback'[w] = Append(Applied(w, chk[w] - 1), <<counter[w], IncAt(w, chk[w])>>)
          /\ (Turned(w) /\ Steps(w)) =>
               /\ counters' = counters
               /\ chk'[w] \in {chk[w], 0}
               /\ \A c \in LaterCounters(w, chk[w]) : heap'[c] = heap[c]]_vars

\* one request passed the count check and was rejected by the pre-check of
\* the bytes check, holding the release of the count check only; another was
\* rejected by the re-check of the count check and holds its release; the
\* bytes counter of the bucket exists and holds nothing
ShortCircuitWitness ==
  \E w \in AllWorkers, v \in AllWorkers :
    /\ RejectedAt(w, 2) /\ errCode[w] = ErrRequestBytesExceed
    /\ KeyAt(w, 1) \in DOMAIN counters
    /\ rollback[w] = <<<<counters[KeyAt(w, 1)], 1>>>>
    /\ RejectedAt(v, 1) /\ errCode[v] = ErrTooManyRequest
    /\ KeyAt(v, 1) \in DOMAIN counters
    /\ rollback[v] = <<<<counters[KeyAt(v, 1)], 1>>>>
    /\ KeyAt(v, 2) \in DOMAIN counters
    /\ heap[counters[KeyAt(v, 2)]] = 0

\* ------------------------------------------------------------------ C16
\* C16: every counter holds the sum of the increments that requests have
\* added to it and not yet released, whatever the loads did to the table.
CounterIsSumHeld ==
  \A c \in 1..Len(heap) : heap[c] = SumHeld(AllWorkers, c)

\* a reload has removed the bytes threshold of the bucket while a request
\* that added its length to the bytes counter is still in flight; another
\* request holds an increment of the count counter only
CounterIsSumHeldWitness ==
  LET K == BucketKey("b1", LimitTypeBytes)
  IN /\ reloads >= 1
     /\ lpc = "idle"
     /\ K \in DOMAIN counters
     /\ K \notin DOMAIN limitations
     /\ heap[counters[K]] = 1
     /\ \E w \in AllWorkers, v \in AllWorkers :
          /\ v # w
          /\ InFlight(w)
          /\ HeldIn(rollback[w], counters[K]) = 1
          /\ rollback[v] # <<>>
          /\ HeldIn(rollback[v], counters[K]) = 0

\* ------------------------------------------------------------------ C17
\* a check of the request of w returns its error code in this step
Rejects(w) == errCode[w] = ErrNone /\ errCode'[w] # ErrNone

\* C17, as claimed: a request is rejected on a key only when its increment,
\* added to those held by the admitted requests, would exceed the threshold;
\* stated for the request whose competitors on the key have all been
\* rejected already, so that rejecting it rejects every arrival.
NotAllRejected ==
  [][\A w \in AllWorkers :
       (Rejects(w) /\ \A v \in Holders(counter[w]) \ {w} : Turned(v)) =>
         SumHeld({v \in AllWorkers \ {w} : Admitted(v)}, counter[w]) + Inc(w) > max[w]]_vars

\* C17, amended: a request is rejected on a key only when its increment,
\* added to those held on the key's counter by the other requests, admitted
\* or not, exceeds the threshold.
RejectedOnlyWhenHeld ==
  [][\A w \in AllWorkers :
       Rejects(w) => SumHeld(AllWorkers \ {w}, counter[w]) + Inc(w) > max[w]]_vars

\* two requests of one bucket with count threshold 1 entered together and
\* both were rejected by the re-check: both hold their increment, the
\* counter is 2 and no handler runs
AllRejectedWitness ==
  \E w \in AllWorkers, v \in AllWorkers :
    LET K == BucketKey(bucket[w], LimitTypeCount)
    IN /\ v # w
       /\ bucket[v] = bucket[w]
       /\ K \in DOMAIN limitations /\ limitations[K] = 1
       /\ K \in DOMAIN counters /\ heap[counters[K]] = 2
       /\ RejectedAt(w, 1) /\ HeldIn(rollback[w], counters[K]) = 1
       /\ RejectedAt(v, 1) /\ HeldIn(rollback[v], counters[K]) = 1
       /\ \A u \in AllWorkers : ~Admitted(u)

\* ------------------------------------------------------------------ C18
\* the counter objects installed in the Counter Store
Installed == {counters[K] : K \in DOMAIN counters}

\* C18: every counter object created is installed, under one key; an
\* installed counter is never replaced or removed; the counter a request
\* works on is the one installed for the key of its check, and every release
\* it holds is on the counter installed for the key of one of its checks.
OneCounterPerKey ==
  /\ [](/\ Cardinality(DOMAIN counters) = Len(heap)
        /\ Installed = 1..Len(heap)
        /\ \A w \in AllWorkers :
             /\ counter[w] # 0 =>
                  (Key(w) \in DOMAIN counters /\ counter[w] = counters[Key(w)])
             /\ \A i \in 1..Len(rollback[w]) :
                  \E j \in 1..4 : /\ KeyAt(w, j) \in DOMAIN counters
                                  /\ rollback[w][i] = <<counters[KeyAt(w, j)], IncAt(w, j)>>)
  /\ [][\A K \in DOMAIN counters :
          K \in DOMAIN counters' /\ counters'[K] = counters[K]]_vars

\* two requests made first use of the same key together: both missed at the
\* unlocked lookup, one has installed the counter and incremented it, the
\* other holds the lock and is about to look the key up again
OneCounterPerKeyWitness ==
  \E w \in AllWorkers, v \in AllWorkers :
    /\ v # w
    /\ pc[w] = "L157" /\ mutex = w
    /\ Key(w) \in DOMAIN counters
    /\ pc[v] = "L173"
    /\ Key(v) = Key(w)
    /\ counter[v] = counters[Key(w)]
    /\ heap[counter[v]] = Inc(v)
    /\ Inc(v) # 0

\* ------------------------------------------------------------------ C19
\* C19: every counter is at least 0 in every state, whatever content length
\* the requests carry.
CountersNonNegative == \A c \in 1..Len(heap) : heap[c] >= 0

\* ------------------------------------------------------------------ C20
\* the next step of w is the unlocked lookup in cb.counters (line 154)
ReadsCounters(w) == pc[w] = "L154"

\* w holds the lock and its next step inserts into cb.counters (line 160)
WritesCounters(w) == pc[w] = "L157" /\ mutex = w /\ Key(w) \notin DOMAIN counters

\* the next step of a request served by w reads cb.Enabled (line 87)
ReadsEnabled(w) == pc[w] = "idle" /\ constructed

\* the next step of w reads cb.limitations (line 153)
ReadsLimitations(w) == pc[w] = "L153"

\* the next step of a reload stores cb.Enabled (line 70)
WritesEnabled == lpc = "L70" /\ constructed

\* the next step of a reload stores cb.limitations (line 81)
WritesLimitations == lpc = "L81" /\ constructed

\* no lookup of line 154 is pending together with an insert of line 160
CountersSerialized ==
  \A w \in AllWorkers : \A v \in AllWorkers \ {w} :
    ~(ReadsCounters(w) /\ WritesCounters(v))

\* no read of cb.Enabled is pending together with the store of line 70
EnabledSerialized == \A w \in AllWorkers : ~(ReadsEnabled(w) /\ WritesEnabled)

\* no read of cb.limitations is pending together with the store of line 81
LimitationsSerialized ==
  \A w \in AllWorkers : ~(ReadsLimitations(w) /\ WritesLimitations)

\* C20: in no state is a read of the counter map, of the Enabled flag or of
\* the Limit Table pending together with a write of the same object.
ConflictsSerialized ==
  /\ CountersSerialized
  /\ EnabledSerialized
  /\ LimitationsSerialized

====
